---- MODULE Spec2Model ----
(***************************************************************************)
(* State machine of the App component (frontend/src/App.tsx): the chat     *)
(* transcript, the live activity timeline, the per-answer historical       *)
(* activities, the finalize latch and the error state, driven by           *)
(* handleSubmit, handleCancel, the Retry button and the stream callbacks   *)
(* onCustomEvent / onError plus the stream's end (thread.isLoading going   *)
(* false).                                                                 *)
(*                                                                         *)
(* A JavaScript string is a sequence of one-character strings, so that     *)
(* trim(), length, substring() and truthiness are computed.  Text that the *)
(* code synthesises from literals is a sequence of chunks (a literal is    *)
(* one chunk).  Emoji prefixes of the titles are left out of the literals. *)
(***************************************************************************)
EXTENDS Integers, Sequences, FiniteSets, TLC

\* Bounds of the exploration.
MaxClock == 1
MaxMessages == 4
MaxEvents == 2

VARIABLES
    processedEventsTimeline,      \* useState<ProcessedEvent[]>
    historicalActivities,         \* useState<Record<string, ProcessedEvent[]>>
    chatMessages,                 \* useState<Message[]>
    hasFinalizeEventOccurredRef,  \* useRef(false)
    error,                        \* useState<string | null>
    isLoading,                    \* thread.isLoading
    now,                          \* the value Date.now() / new Date() returns
    threadCall,                   \* the last call made on the stream: submit(request) or stop()
    delivered,                    \* history: the events handed to onCustomEvent since the
                                  \* last handleSubmit that passed its guard
    submitIgnored,                \* history: the last call was a handleSubmit that
                                  \* returned at its guard
    turnErrored                   \* history: onError was called since the last
                                  \* handleSubmit that passed its guard

vars == <<processedEventsTimeline, historicalActivities, chatMessages,
          hasFinalizeEventOccurredRef, error, isLoading, now, threadCall,
          delivered, submitIgnored, turnErrored>>

-----------------------------------------------------------------------------
(* JavaScript primitives the handlers use *)

Whitespace == {" ", "\t", "\n"}

\* String.prototype.trim
RECURSIVE TrimStart(_)
TrimStart(s) ==
    IF s # <<>> /\ Head(s) \in Whitespace THEN TrimStart(Tail(s)) ELSE s

RECURSIVE TrimEnd(_)
TrimEnd(s) ==
    IF s # <<>> /\ s[Len(s)] \in Whitespace
    THEN TrimEnd(SubSeq(s, 1, Len(s) - 1))
    ELSE s

Trim(s) == TrimEnd(TrimStart(s))

\* Truthiness of a string: the empty string is falsy.
Truthy(s) == s # <<>>

\* Truthiness of a field that holds a name (langgraph_node, type): absent
\* (undefined) and "" are both falsy and both written "".
Named(name) == name # ""

\* s.substring(0, n)
Substring0(s, n) == SubSeq(s, 1, IF Len(s) < n THEN Len(s) ELSE n)

\* useState<Record<string, ProcessedEvent[]>>({})
EmptyRecord == [k \in {} |-> <<>>]

\* useState<string | null>(null)
NoError == [isNull |-> TRUE]

ErrorOf(message) == [isNull |-> FALSE, message |-> message]

\* `error ? ... : ...` in the render: null and "" are falsy.
ErrorShown == ~error.isNull /\ Truthy(error.message)

\* `finalize-${Date.now()}` and `user-${Date.now()}`
MessageId(prefix, t) == [prefix |-> prefix, time |-> t]

-----------------------------------------------------------------------------
(* Inputs *)

\* Texts typed into the form: "", " ", "X".
SubmittedInputValues == { <<>>, <<" ">>, <<"X">> }

Efforts == { "low", "medium", "high", "custom" }

Models == { "gemini" }

-----------------------------------------------------------------------------
(* Initial state: the values of the useState / useRef calls *)

Init ==
    /\ processedEventsTimeline = <<>>
    /\ historicalActivities = EmptyRecord
    /\ chatMessages = <<>>
    /\ hasFinalizeEventOccurredRef = FALSE
    /\ error = NoError
    /\ isLoading = FALSE
    /\ now = 0
    /\ threadCall = [op |-> "none"]
    /\ delivered = <<>>
    /\ submitIgnored = FALSE
    /\ turnErrored = FALSE

-----------------------------------------------------------------------------
(* onCustomEvent: classification of one custom event (lines 71-222) *)

\* `null` of `let processedEvent: ProcessedEvent | null = null`
NoProcessedEvent == [isNull |-> TRUE]

ProcessedEvent(title, data) == [isNull |-> FALSE, title |-> title, data |-> data]

\* message.length; a message that is not a string has no length (undefined),
\* and `undefined > n` is false, as is -1 > n.
MessageLength(eventData) ==
    IF eventData.messageIsString THEN Len(eventData.message) ELSE -1

\* message.length > n ? message.substring(0, n) + '...' : message
Preview(eventData, n) ==
    IF MessageLength(eventData) > n
    THEN Substring0(eventData.message, n) \o <<"...">>
    ELSE eventData.message

PreviewLimit == 150
DocPreviewLimit == 100
KnowledgeGapLimit == 80

\* JSON.parse on the texts the reflection node sends: the value for a text of
\* the table, a SyntaxError for any other text.  A field that is absent is
\* "undefined" / <<>> / <<>> (`|| []`).
JSONTexts ==
    { [text |-> <<"{", "}">>,
       value |-> [is_sufficient |-> "undefined", knowledge_gap |-> <<>>,
                  follow_up_queries |-> <<>>]],
      [text |-> <<"{", "\"", "i", "s", "_", "s", "u", "f", "f", "i", "c", "i",
                  "e", "n", "t", "\"", ":", "t", "r", "u", "e", "}">>,
       value |-> [is_sufficient |-> "true", knowledge_gap |-> <<>>,
                  follow_up_queries |-> <<>>]] }

JSONParses(eventData) ==
    /\ eventData.messageIsString
    /\ \E p \in JSONTexts : p.text = eventData.message

JSONParse(eventData) ==
    (CHOOSE p \in JSONTexts : p.text = eventData.message).value

\* details.join(" | ")
RECURSIVE Join(_)
Join(details) ==
    IF details = <<>> THEN <<>>
    ELSE IF Len(details) = 1 THEN Head(details)
    ELSE Head(details) \o <<" | ">> \o Join(Tail(details))

\* case "reflection" (lines 129-160)
ReflectionEvent(eventData) ==
    IF JSONParses(eventData)
    THEN LET reflectionData == JSONParse(eventData)
             knowledgeGap == reflectionData.knowledge_gap
             sufficiency ==
                 IF reflectionData.is_sufficient = "undefined" THEN <<>>
                 ELSE IF reflectionData.is_sufficient = "true"
                      THEN << <<"Research results are sufficient">> >>
                      ELSE << <<"Further research needed">> >>
             gap ==
                 IF Truthy(knowledgeGap)
                 THEN << <<"Knowledge Gap: ">> \o
                         (IF Len(knowledgeGap) > KnowledgeGapLimit
                          THEN Substring0(knowledgeGap, KnowledgeGapLimit) \o <<"...">>
                          ELSE knowledgeGap) >>
                 ELSE <<>>
             followUp ==
                 IF Len(reflectionData.follow_up_queries) > 0
                 THEN << <<"Follow-up queries: ",
                           ToString(Len(reflectionData.follow_up_queries)),
                           " planned">> >>
                 ELSE <<>>
             details == sufficiency \o gap \o followUp
         IN  ProcessedEvent("Research Reflection",
                 IF Len(details) > 0 THEN Join(details)
                 ELSE <<"Analyzing research results...">>)
    ELSE ProcessedEvent("Research Reflection", Preview(eventData, PreviewLimit))

\* The one statement of the handler that can throw on an event of the stream:
\* message.match(...) of case "doc_research" when message is not a string.
Throws(eventData) ==
    /\ eventData.isObject
    /\ Named(eventData.langgraph_node) /\ Truthy(eventData.message)
    /\ eventData.langgraph_node = "doc_research"
    /\ ~eventData.messageIsString

\* message.includes(pattern)
Includes(s, pattern) ==
    \E i \in 1..(Len(s) - Len(pattern) + 1) :
        SubSeq(s, i, i + Len(pattern) - 1) = pattern

Digits == {"0", "1", "2", "3", "4", "5", "6", "7", "8", "9"}

\* message.match(/prefix(\d+)suffix/)?.[1] || "unknown", with the three
\* characters of the prefix written "<gong>", "<fan>", "<hui>" and the suffix "<ge>".
DocCount(s) ==
    LET matchAt(i, k) ==
            /\ i + 3 + k <= Len(s)
            /\ SubSeq(s, i, i + 2) = <<"<gong>", "<fan>", "<hui>">>
            /\ \A j \in (i + 3)..(i + 2 + k) : s[j] \in Digits
            /\ s[i + 3 + k] = "<ge>"
        hits == { <<i, k>> \in (1..Len(s)) \X (1..Len(s)) : matchAt(i, k) }
    IN  IF hits = {} THEN <<"unknown">>
        ELSE LET first == CHOOSE h \in hits : \A g \in hits : h[1] <= g[1]
             IN  SubSeq(s, first[1] + 3, first[1] + 2 + first[2])

\* case "doc_research" (lines 118-128), for a string message
DocResearchEvent(eventData) ==
    LET message == eventData.message
        relevanceInfo ==
            IF Includes(message, <<"<xiang>", "<guan>", "<du>">>)
            THEN <<"Found ">> \o DocCount(message) \o <<" relevant documents">>
            ELSE <<"Searching knowledge base">>
    IN  ProcessedEvent("Knowledge Base Research",
            relevanceInfo \o <<" - ">> \o
            (IF Len(message) > DocPreviewLimit
             THEN Substring0(message, DocPreviewLimit) \o <<"...">>
             ELSE message))

\* The final node leaves no entry in the timeline.
NoFinalAnswerEvent == NoProcessedEvent

\* case "finalize_answer" (lines 168-174)
FinalAnswerEvent ==
    ProcessedEvent("Generating Final Answer",
        <<"Consolidating all research findings to generate a comprehensive answer...">>)

\* switch (nodeName) (lines 102-183)
NodeEvent(eventData) ==
    LET nodeName == eventData.langgraph_node IN
    CASE nodeName = "generate_query" ->
            ProcessedEvent("Generating Search Queries", Preview(eventData, PreviewLimit))
      [] nodeName = "web_research" ->
            ProcessedEvent("Web Research", Preview(eventData, PreviewLimit))
      [] nodeName = "doc_research" -> DocResearchEvent(eventData)
      [] nodeName = "reflection" -> ReflectionEvent(eventData)
      [] nodeName = "evaluate_research" ->
            ProcessedEvent("Evaluating Research Progress", eventData.message)
      [] nodeName = "finalize_answer" -> FinalAnswerEvent
      [] OTHER ->
            ProcessedEvent(nodeName, Preview(eventData, PreviewLimit))

\* eventData.message || fallback
MessageOr(eventData, fallback) ==
    IF Truthy(eventData.message) THEN eventData.message ELSE <<fallback>>

\* JSON.stringify(eventData): the fields the event carries, one chunk each.
JSONStringify(eventData) ==
    <<"{">>
    \o (IF Named(eventData.langgraph_node)
        THEN <<"langgraph_node:", eventData.langgraph_node>> ELSE <<>>)
    \o (IF Truthy(eventData.message) THEN <<"message:">> \o eventData.message ELSE <<>>)
    \o (IF Named(eventData.type) THEN <<"type:", eventData.type>> ELSE <<>>)
    \o (IF eventData.unexpected THEN <<"unexpected:", "true">> ELSE <<>>)
    \o <<"}">>

StringifyLimit == 100

\* switch (eventData.type) (lines 186-213)
TypeEvent(eventData) ==
    CASE eventData.type = "progress_update" ->
            ProcessedEvent("Progress Update",
                MessageOr(eventData, "Progress update received"))
      [] eventData.type = "error_occurred" ->
            ProcessedEvent("Error", MessageOr(eventData, "An error occurred"))
      [] eventData.type = "status_change" ->
            ProcessedEvent("Status Change", MessageOr(eventData, "Status changed"))
      [] OTHER ->
            ProcessedEvent("Custom Event",
                <<"Received: ">> \o Substring0(JSONStringify(eventData), StringifyLimit)
                \o <<"...">>)

\* The branch `eventData.langgraph_node && eventData.message` (line 83)
IsNodeEvent(eventData) ==
    eventData.isObject /\ Named(eventData.langgraph_node) /\ Truthy(eventData.message)

\* Every node event taken for the final answer.
IsFinalizeAnswerAnyNode(eventData) == IsNodeEvent(eventData)

\* The final node taken for an answer whatever its message.
IsFinalizeAnswerNoContent(eventData) ==
    eventData.isObject /\ eventData.langgraph_node = "finalize_answer"

\* The branch that adds the answer to the chat (line 90)
IsFinalizeAnswer(eventData) ==
    IsNodeEvent(eventData) /\ eventData.langgraph_node = "finalize_answer"

\* The value of processedEvent at line 224
Classify(data) ==
    IF Throws(data)
    THEN ProcessedEvent("Custom Event Processing Error",
             <<"An error occurred during custom event processing: ",
               "message.match is not a function">>)
    ELSE IF ~data.isObject THEN NoProcessedEvent
    ELSE IF IsNodeEvent(data) THEN NodeEvent(data)
    ELSE TypeEvent(data)

\* The catch block reports the failure as the error of the page too.
ErrorAfterEventOrFailure(data, prev) ==
    IF Throws(data) THEN ErrorOf(<<"message.match is not a function">>)
    ELSE IF data.isObject /\ ~IsNodeEvent(data) /\ data.type = "error_occurred"
         THEN ErrorOf(MessageOr(data, "An unknown error occurred"))
         ELSE prev

\* The event's message is not recorded as the error.
ErrorAfterEventIgnored(data, prev) == prev

\* The error state after the handler: setError of case 'error_occurred'
\* (line 194), reached by an object that is not a node event.
ErrorAfterEvent(data, prev) ==
    IF data.isObject /\ ~IsNodeEvent(data) /\ ~Throws(data)
       /\ data.type = "error_occurred"
    THEN ErrorOf(MessageOr(data, "An unknown error occurred"))
    ELSE prev

-----------------------------------------------------------------------------
(* Inputs of the stream callbacks *)

CustomEvent(isObject, node, message, isString, type, unexpected) ==
    [isObject |-> isObject, langgraph_node |-> node, message |-> message,
     messageIsString |-> isString, type |-> type, unexpected |-> unexpected]

\* null, a string or a number: `data && typeof data === 'object'` is false
NonObjectEvent == CustomEvent(FALSE, "", <<>>, FALSE, "", FALSE)

GenerateQueryEvent == CustomEvent(TRUE, "generate_query", <<"q">>, TRUE, "", FALSE)

\* {langgraph_node: "finalize_answer", message: "Done."}
FinalizeEvent ==
    CustomEvent(TRUE, "finalize_answer", <<"D", "o", "n", "e", ".">>, TRUE, "", FALSE)

\* {type: "error_occurred", message: "E"}
ErrorOccurredEvent == CustomEvent(TRUE, "", <<"E">>, TRUE, "error_occurred", FALSE)

\* {type: "error_occurred"}
ErrorOccurredNoMessageEvent == CustomEvent(TRUE, "", <<>>, FALSE, "error_occurred", FALSE)

ErrorOccurredEvents == { ErrorOccurredEvent, ErrorOccurredNoMessageEvent }

CustomEvents == { NonObjectEvent, GenerateQueryEvent, FinalizeEvent }

\* {unexpected: true}: an object with neither langgraph_node, message nor type
UnexpectedEvent == CustomEvent(TRUE, "", <<>>, FALSE, "", TRUE)

\* {langgraph_node: "doc_research", message: {text: "d"}}: the message is an
\* object, which has no match method
DocResearchObjectEvent == CustomEvent(TRUE, "doc_research", <<"d">>, FALSE, "", FALSE)

\* {langgraph_node: "finalize_answer", message: ""}: the final node without
\* an answer
FinalizeNoContentEvent == CustomEvent(TRUE, "finalize_answer", <<>>, TRUE, "", FALSE)

\* An object of no admissible shape, and an object whose processing throws.
MalformedEvents == { UnexpectedEvent, DocResearchObjectEvent }

\* "What is X?"
WhatIsX == <<"W", "h", "a", "t", " ", "i", "s", " ", "X", "?">>

\* "X is ..."
XIs == <<"X", " ", "i", "s", " ", ".", ".", ".">>

\* The events of one run of the pipeline, in the order the backend sends them:
\* generate_query, web_research, reflection with {"is_sufficient":true},
\* finalize_answer with the answer "X is ...".
PipelineStream ==
    << GenerateQueryEvent,
       CustomEvent(TRUE, "web_research", <<"r">>, TRUE, "", FALSE),
       CustomEvent(TRUE, "reflection",
                   <<"{", "\"", "i", "s", "_", "s", "u", "f", "f", "i", "c", "i",
                     "e", "n", "t", "\"", ":", "t", "r", "u", "e", "}">>,
                   TRUE, "", FALSE),
       CustomEvent(TRUE, "finalize_answer", XIs, TRUE, "", FALSE) >>

\* new Error("boom"), and the thrown string "boom"
StreamErrors ==
    { [isError |-> TRUE, message |-> <<"b", "o", "o", "m">>,
       string |-> <<"Error: ", "b", "o", "o", "m">>],
      [isError |-> FALSE, message |-> <<>>, string |-> <<"b", "o", "o", "m">>] }

-----------------------------------------------------------------------------
(* The pieces of state the handlers compute *)

\* The message put in front: [message, ...prev]
PrependMessage(prev, message) == <<message>> \o prev

\* setChatMessages(prev => [...prev, message])
AppendMessage(prev, message) == Append(prev, message)

\* An event equal in title and data to the last entry is dropped.
AppendProcessedEventOnce(prevEvents, processedEvent, timestamp) ==
    IF processedEvent.isNull THEN prevEvents
    ELSE IF /\ prevEvents # <<>>
            /\ prevEvents[Len(prevEvents)].title = processedEvent.title
            /\ prevEvents[Len(prevEvents)].data = processedEvent.data
         THEN prevEvents
         ELSE Append(prevEvents,
                     [title |-> processedEvent.title, data |-> processedEvent.data,
                      timestamp |-> timestamp])

\* setProcessedEventsTimeline(prev => [...prev, {...processedEvent, timestamp}])
\* under `if (processedEvent)` (lines 224-232)
AppendProcessedEvent(prevEvents, processedEvent, timestamp) ==
    IF processedEvent.isNull THEN prevEvents
    ELSE Append(prevEvents,
                [title |-> processedEvent.title, data |-> processedEvent.data,
                 timestamp |-> timestamp])

\* The timeline left as it is.
KeepTimeline == processedEventsTimeline

\* setProcessedEventsTimeline([]) (line 286)
ResetTimeline == <<>>

\* The latch left as it is.
KeepLatch == hasFinalizeEventOccurredRef

\* hasFinalizeEventOccurredRef.current = false (line 287)
ResetLatch == FALSE

\* Only the new message is sent.
NewMessagesOnlyLast(messages, userMessage) == <<userMessage>>

\* const newMessages = [...(chatMessages || []), userMessage] (lines 319-322)
NewMessages(messages, userMessage) == messages \o <<userMessage>>

\* A snapshot taken from a stale render: the last event is missing.
SnapshotStale(timeline) == SubSeq(timeline, 1, Len(timeline) - 1)

\* [...processedEventsTimeline] (line 269)
Snapshot(timeline) == timeline

\* setHistoricalActivities(prev => ({...prev, [id]: snapshot})) (lines 267-270)
SetHistoricalActivities(prev, id, snapshot) ==
    [k \in DOMAIN prev \cup {id} |-> IF k = id THEN snapshot ELSE prev[k]]

\* The effect without its test of thread.isLoading.
AssociateEffectWhileLoading(depsSet, ref, loading, messages, timeline, historical) ==
    IF depsSet /\ ref /\ Len(messages) > 0
    THEN LET lastMessage == messages[Len(messages)] IN
         [ref |-> FALSE,
          historical |->
              IF lastMessage.type = "ai"
              THEN SetHistoricalActivities(historical, lastMessage.id, Snapshot(timeline))
              ELSE historical]
    ELSE [ref |-> ref, historical |-> historical]

\* The effect of lines 259-274 on (hasFinalizeEventOccurredRef,
\* historicalActivities), given the values of the render it runs after.  It
\* runs after a render in which one of its dependencies (chatMessages,
\* thread.isLoading, processedEventsTimeline) was set.
AssociateEffect(depsSet, ref, loading, messages, timeline, historical) ==
    IF depsSet /\ ref /\ ~loading /\ Len(messages) > 0
    THEN LET lastMessage == messages[Len(messages)] IN
         [ref |-> FALSE,
          historical |->
              IF lastMessage.type = "ai"
              THEN SetHistoricalActivities(historical, lastMessage.id, Snapshot(timeline))
              ELSE historical]
    ELSE [ref |-> ref, historical |-> historical]

\* The two numbers of "high" exchanged.
EffortParametersSwapped(effort) ==
    CASE effort = "low" -> [initial_search_query_count |-> 1, max_research_loops |-> 1]
      [] effort = "medium" -> [initial_search_query_count |-> 3, max_research_loops |-> 3]
      [] effort = "high" -> [initial_search_query_count |-> 10, max_research_loops |-> 5]
      [] OTHER -> [initial_search_query_count |-> 0, max_research_loops |-> 0]

\* switch (effort) (lines 293-308)
EffortParameters(effort) ==
    CASE effort = "low" -> [initial_search_query_count |-> 1, max_research_loops |-> 1]
      [] effort = "medium" -> [initial_search_query_count |-> 3, max_research_loops |-> 3]
      [] effort = "high" -> [initial_search_query_count |-> 5, max_research_loops |-> 10]
      [] OTHER -> [initial_search_query_count |-> 0, max_research_loops |-> 0]

\* error instanceof Error ? error.message : String(error) (line 236)
ErrorMessage(err) == IF err.isError THEN err.message ELSE err.string

\* The guard of handleSubmit (line 285)
IsBlank(submittedInputValue) == ~Truthy(Trim(submittedInputValue))

\* The render shows the form (WelcomeScreen or ChatMessagesView), which holds
\* the submit and cancel controls, unless it shows the error view (lines 346-379).
FormRendered == chatMessages = <<>> \/ ~ErrorShown

-----------------------------------------------------------------------------
(* Operations *)

\* handleSubmit (lines 283-332)
handleSubmit(submittedInputValue, effort, model) ==
    /\ FormRendered
    /\ IF IsBlank(submittedInputValue)
       THEN /\ submitIgnored' = TRUE
            /\ UNCHANGED <<processedEventsTimeline, historicalActivities, chatMessages,
                           hasFinalizeEventOccurredRef, error, isLoading, now,
                           threadCall, delivered, turnErrored>>
       ELSE /\ Len(chatMessages) < MaxMessages
            /\ LET userMessage == [type |-> "human", content |-> submittedInputValue,
                                   id |-> MessageId("user", now)]
                   newMessages == NewMessages(chatMessages, userMessage)
                   parameters == EffortParameters(effort)
                   messages == AppendMessage(chatMessages, userMessage)
                   effect == AssociateEffect(TRUE, ResetLatch, TRUE, messages, ResetTimeline,
                                             historicalActivities)
               IN  /\ processedEventsTimeline' = ResetTimeline
                   /\ chatMessages' = messages
                   /\ hasFinalizeEventOccurredRef' = effect.ref
                   /\ historicalActivities' = effect.historical
                   /\ threadCall' =
                          [op |-> "submit",
                           request |->
                               [messages |-> newMessages,
                                initial_search_query_count |->
                                    parameters.initial_search_query_count,
                                max_research_loops |-> parameters.max_research_loops,
                                reasoning_model |-> model]]
                   /\ isLoading' = TRUE
            /\ delivered' = <<>>
            /\ submitIgnored' = FALSE
            /\ turnErrored' = FALSE
            /\ UNCHANGED <<error, now>>

\* onCustomEvent (lines 71-233).  The stream hands over its events while it
\* is active, that is while thread.isLoading holds.
onCustomEvent(data) ==
    /\ isLoading
    /\ IsFinalizeAnswer(data) => Len(chatMessages) < MaxMessages
    /\ LET aiMessage == [type |-> "ai", content |-> data.message,
                         id |-> MessageId("finalize", now)]
           messages == IF IsFinalizeAnswer(data)
                       THEN AppendMessage(chatMessages, aiMessage)
                       ELSE chatMessages
           ref == IF IsFinalizeAnswer(data) THEN TRUE ELSE hasFinalizeEventOccurredRef
           processedEvent == Classify(data)
           timeline == AppendProcessedEvent(processedEventsTimeline, processedEvent, now)
           depsSet == IsFinalizeAnswer(data) \/ ~processedEvent.isNull
           effect == AssociateEffect(depsSet, ref, isLoading, messages, timeline,
                                     historicalActivities)
       IN  /\ chatMessages' = messages
           /\ processedEventsTimeline' = timeline
           /\ hasFinalizeEventOccurredRef' = effect.ref
           /\ historicalActivities' = effect.historical
    /\ error' = ErrorAfterEvent(data, error)
    /\ delivered' = Append(delivered, data)
    /\ submitIgnored' = FALSE
    /\ UNCHANGED <<isLoading, now, threadCall, turnErrored>>

\* The stream ends: thread.isLoading becomes false and the effect runs
\* (lines 259-274).
onStreamIdle ==
    /\ isLoading
    /\ isLoading' = FALSE
    /\ LET effect == AssociateEffect(TRUE, hasFinalizeEventOccurredRef, FALSE,
                                     chatMessages, processedEventsTimeline,
                                     historicalActivities)
       IN  /\ hasFinalizeEventOccurredRef' = effect.ref
           /\ historicalActivities' = effect.historical
    /\ submitIgnored' = FALSE
    /\ UNCHANGED <<processedEventsTimeline, chatMessages, error, now, threadCall,
                   delivered, turnErrored>>

\* onError (lines 235-238)
onError(err) ==
    /\ error' = ErrorOf(ErrorMessage(err))
    /\ turnErrored' = TRUE
    /\ submitIgnored' = FALSE
    /\ UNCHANGED <<processedEventsTimeline, historicalActivities, chatMessages,
                   hasFinalizeEventOccurredRef, isLoading, now, threadCall,
                   delivered>>

\* A reset that keeps the transcript and the historical activities.
ReloadKeepingHistory ==
    /\ processedEventsTimeline' = <<>>
    /\ hasFinalizeEventOccurredRef' = FALSE
    /\ error' = NoError
    /\ isLoading' = FALSE
    /\ delivered' = <<>>
    /\ submitIgnored' = FALSE
    /\ turnErrored' = FALSE
    /\ UNCHANGED <<historicalActivities, chatMessages, now>>

\* A reset that empties the transcript and keeps the historical activities.
ReloadKeepingActivities ==
    /\ processedEventsTimeline' = <<>>
    /\ chatMessages' = <<>>
    /\ hasFinalizeEventOccurredRef' = FALSE
    /\ error' = NoError
    /\ isLoading' = FALSE
    /\ delivered' = <<>>
    /\ submitIgnored' = FALSE
    /\ turnErrored' = FALSE
    /\ UNCHANGED <<historicalActivities, now>>

\* window.location.reload(): the component is constructed anew.
Reload ==
    /\ processedEventsTimeline' = <<>>
    /\ historicalActivities' = EmptyRecord
    /\ chatMessages' = <<>>
    /\ hasFinalizeEventOccurredRef' = FALSE
    /\ error' = NoError
    /\ isLoading' = FALSE
    /\ delivered' = <<>>
    /\ submitIgnored' = FALSE
    /\ turnErrored' = FALSE
    /\ UNCHANGED now

\* handleCancel (lines 338-341)
handleCancel ==
    /\ FormRendered
    /\ threadCall' = [op |-> "stop"]
    /\ Reload

\* The Retry button of the error view (lines 360-365)
Retry ==
    /\ ~FormRendered
    /\ threadCall' = [op |-> "none"]
    /\ Reload

\* Time passes: Date.now() returns a later value.
Tick ==
    /\ now < MaxClock
    /\ now' = now + 1
    /\ submitIgnored' = FALSE
    /\ UNCHANGED <<processedEventsTimeline, historicalActivities, chatMessages,
                   hasFinalizeEventOccurredRef, error, isLoading, threadCall,
                   delivered, turnErrored>>

\* The steps of the component, its inputs drawn from the given sets.
NextOn(values, efforts, events) ==
    \/ \E submittedInputValue \in values, effort \in efforts, model \in Models :
           handleSubmit(submittedInputValue, effort, model)
    \/ \E data \in events : Len(delivered) < MaxEvents /\ onCustomEvent(data)
    \/ onStreamIdle
    \/ \E err \in StreamErrors : onError(err)
    \/ handleCancel
    \/ Retry
    \/ Tick

\* One effort, where the parameters of the request are not the subject.
OneEffort == { "medium" }

Next == NextOn(SubmittedInputValues, OneEffort, CustomEvents)

Spec == Init /\ [][Next]_vars

\* Every effort of the form, on a stream of final answers.
NextEfforts == NextOn(SubmittedInputValues, Efforts, { FinalizeEvent })

SpecEfforts == Init /\ [][NextEfforts]_vars

\* Turns whose events are malformed or fail in the handler, next to final
\* answers.
NextMalformed ==
    NextOn({ <<"X">> }, OneEffort, MalformedEvents \cup { FinalizeEvent })

SpecMalformed == Init /\ [][NextMalformed]_vars

\* Turns whose final node sends its event without an answer, next to final
\* answers.
NextNoContent ==
    NextOn({ <<"X">> }, OneEffort, { FinalizeNoContentEvent, FinalizeEvent })

SpecNoContent == Init /\ [][NextNoContent]_vars

\* Turns in which the backend reports errors as events of the stream, next
\* to query events.
NextErrorEvents ==
    NextOn({ <<"X">> }, OneEffort, ErrorOccurredEvents \cup { GenerateQueryEvent })

SpecErrorEvents == Init /\ [][NextErrorEvents]_vars

\* Turns in which the backend runs the pipeline: the stream hands over the
\* events of PipelineStream in their order.
NextPipeline ==
    \/ \E effort \in OneEffort, model \in Models : handleSubmit(WhatIsX, effort, model)
    \/ /\ Len(delivered) < Len(PipelineStream)
       /\ onCustomEvent(PipelineStream[Len(delivered) + 1])
    \/ onStreamIdle
    \/ \E err \in StreamErrors : onError(err)
    \/ handleCancel
    \/ Retry
    \/ Tick

SpecPipeline == Init /\ [][NextPipeline]_vars

-----------------------------------------------------------------------------
(* Vocabulary of the properties *)

\* A timeline without its timestamps.
Timeless(timeline) ==
    [i \in 1..Len(timeline) |->
        [title |-> timeline[i].title, data |-> timeline[i].data]]

\* The ProcessedEvents the given events classify to, in their order.
RECURSIVE Classified(_)
Classified(events) ==
    IF events = <<>> THEN <<>>
    ELSE LET processedEvent == Classify(Head(events)) IN
         (IF processedEvent.isNull THEN <<>>
          ELSE << [title |-> processedEvent.title, data |-> processedEvent.data] >>)
         \o Classified(Tail(events))

\* The terminal events (finalize_answer with content) among the given events.
Terminals(events) == SelectSeq(events, IsFinalizeAnswer)

IsAgent(message) == message.type = "ai"

AgentMessages(messages) == SelectSeq(messages, IsAgent)

\* A turn opened by handleSubmit is under way or has ended.
TurnOpened == threadCall.op = "submit"

\* The messages appended since the submission that opened the turn.
GainedSince(messages) ==
    SubSeq(messages, Len(threadCall.request.messages) + 1, Len(messages))

\* What every handleSubmit step and no other step does: it sets
\* submitIgnored or makes a thread.submit call.
SubmitCalled ==
    submitIgnored' \/ (threadCall' # threadCall /\ threadCall'.op = "submit")

\* The step is handleSubmit(X, effort, model).
Submits(X, effort, model) == SubmitCalled /\ handleSubmit(X, effort, model)

SubmitStep ==
    \E submittedInputValue \in SubmittedInputValues, effort \in Efforts,
       model \in Models : Submits(submittedInputValue, effort, model)

\* The step is onCustomEvent(data).
Receives(data) == delivered' = Append(delivered, data) /\ onCustomEvent(data)

EventStep == \E data \in CustomEvents : Receives(data)

ErrorStep == \E err \in StreamErrors : onError(err)

-----------------------------------------------------------------------------
(* Properties *)

\* C1: when the stream goes idle in a turn opened by handleSubmit in which
\* exactly one terminal event, carrying content c, was received, the transcript
\* has gained exactly one message since the submission, an agent message with
\* content c, and the idle reaction stores under that message's id the
\* timeline as it stands at that moment: the classified events of the turn,
\* element for element in arrival order.
C1_TerminalThenIdleCommits ==
    [][ (onStreamIdle /\ TurnOpened /\ Len(Terminals(delivered)) = 1) =>
        LET gained == GainedSince(chatMessages')
            c == Terminals(delivered)[1].message
        IN  /\ Len(gained) = 1
            /\ gained[1].type = "ai"
            /\ gained[1].content = c
            /\ gained[1].id \in DOMAIN historicalActivities'
            /\ historicalActivities'[gained[1].id] = processedEventsTimeline
            /\ processedEventsTimeline' = processedEventsTimeline
            /\ Timeless(historicalActivities'[gained[1].id]) = Classified(delivered)
      ]_vars

\* C1 witness: the stream of a turn went idle after a query event and one
\* terminal event, and the answer's id holds the two-entry timeline.
C1_Witness ==
    /\ TurnOpened /\ ~isLoading
    /\ delivered = <<GenerateQueryEvent, FinalizeEvent>>
    /\ Len(chatMessages) >= 2
    /\ chatMessages[Len(chatMessages)].type = "ai"
    /\ chatMessages[Len(chatMessages)].id \in DOMAIN historicalActivities
    /\ Len(historicalActivities[chatMessages[Len(chatMessages)].id]) = 2

\* C2 (as claimed): no handleSubmit, onCustomEvent, stream-idle or onError step
\* removes a key of historicalActivities or changes the value stored under it.
C2_WriteOnce ==
    [][ (SubmitStep \/ EventStep \/ onStreamIdle \/ ErrorStep) =>
        \A k \in DOMAIN historicalActivities :
            /\ k \in DOMAIN historicalActivities'
            /\ historicalActivities'[k] = historicalActivities[k]
      ]_vars

\* C3 (as claimed): a terminal event received after another terminal event of
\* the same turn appends no message and leaves the latch and
\* historicalActivities as they are.
C3_SecondTerminalIgnored ==
    [][ \A data \in CustomEvents :
          (Receives(data) /\ IsFinalizeAnswer(data)
             /\ Len(Terminals(delivered)) >= 1) =>
              /\ chatMessages' = chatMessages
              /\ historicalActivities' = historicalActivities
      ]_vars

\* C4 (as claimed): every handleSubmit(X, ...) appends exactly one human
\* message with content X at the end of the transcript.
C4_EverySubmitAppends ==
    [][ \A X \in SubmittedInputValues, effort \in Efforts, model \in Models :
          Submits(X, effort, model) =>
              /\ Len(chatMessages') = Len(chatMessages) + 1
              /\ SubSeq(chatMessages', 1, Len(chatMessages)) = chatMessages
              /\ chatMessages'[Len(chatMessages')].type = "human"
              /\ chatMessages'[Len(chatMessages')].content = X
      ]_vars

\* C4 (amended): handleSubmit(X, ...) with X not blank appends exactly one human
\* message with content X (untrimmed) at the end of the transcript, in the step
\* that opens the turn, so with no event of the turn received yet and an empty
\* timeline; no later event or idle step of the turn moves or removes it; and
\* handleSubmit with a blank X leaves the transcript as it is.
C4_NonBlankSubmitAppends ==
    [][ /\ \A X \in SubmittedInputValues, effort \in Efforts, model \in Models :
             Submits(X, effort, model) =>
                 IF IsBlank(X)
                 THEN chatMessages' = chatMessages
                 ELSE /\ Len(chatMessages') = Len(chatMessages) + 1
                      /\ SubSeq(chatMessages', 1, Len(chatMessages)) = chatMessages
                      /\ chatMessages'[Len(chatMessages')].type = "human"
                      /\ chatMessages'[Len(chatMessages')].content = X
                      /\ GainedSince(chatMessages)' = <<>>
                      /\ processedEventsTimeline' = <<>>
        /\ (EventStep \/ onStreamIdle) =>
               SubSeq(chatMessages', 1, Len(chatMessages)) = chatMessages
      ]_vars

\* C4 witness: a second turn has just been opened: the transcript ends with
\* the human message "X" after an earlier answer, and no event has arrived.
C4_Witness ==
    /\ TurnOpened /\ isLoading /\ delivered = <<>>
    /\ Len(chatMessages) >= 3
    /\ chatMessages[Len(chatMessages)].type = "human"
    /\ chatMessages[Len(chatMessages)].content = <<"X">>
    /\ chatMessages[Len(chatMessages) - 1].type = "ai"

\* C5: the request handleSubmit forwards to the stream carries
\* (initial_search_query_count, max_research_loops) = (1,1) for effort "low",
\* (3,3) for "medium" and (5,10) for "high", whatever the state it is called in.
C5_EffortParameters ==
    [][ \A X \in SubmittedInputValues, effort \in Efforts, model \in Models :
          (Submits(X, effort, model) /\ ~IsBlank(X)) =>
              LET request == threadCall'.request
                  pair == <<request.initial_search_query_count,
                            request.max_research_loops>>
              IN  /\ threadCall'.op = "submit"
                  /\ effort = "low" => pair = <<1, 1>>
                  /\ effort = "medium" => pair = <<3, 3>>
                  /\ effort = "high" => pair = <<5, 10>>
      ]_vars

\* C5 witness: a request with effort "high" was forwarded in a later turn.
C5_Witness ==
    /\ TurnOpened
    /\ threadCall.request.initial_search_query_count = 5
    /\ threadCall.request.max_research_loops = 10
    /\ Len(threadCall.request.messages) >= 3

\* The keys of historicalActivities that a step writes.
Written ==
    { k \in DOMAIN historicalActivities' :
        k \notin DOMAIN historicalActivities
        \/ historicalActivities'[k] # historicalActivities[k] }

\* C6 (as claimed): a stream going idle in a turn without a terminal event
\* leaves historicalActivities as it is, every handleSubmit call empties the
\* timeline, and a snapshot holds only events of the turn it is taken in.
C6_EverySubmitClears ==
    [][ /\ (onStreamIdle /\ Len(Terminals(delivered)) = 0) =>
               historicalActivities' = historicalActivities
        /\ SubmitStep => processedEventsTimeline' = <<>>
        /\ \A k \in Written :
               Timeless(historicalActivities'[k]) = Classified(delivered')
      ]_vars

\* C6 (amended): a stream going idle in a turn without a terminal event leaves
\* historicalActivities as it is; the next handleSubmit whose text is not blank
\* empties the timeline in the step that opens the new turn (a blank one is
\* ignored and leaves it); so a snapshot holds only events received since the
\* last handleSubmit with a text that is not blank.
C6_NonBlankSubmitClears ==
    [][ /\ (onStreamIdle /\ Len(Terminals(delivered)) = 0) =>
               historicalActivities' = historicalActivities
        /\ \A X \in SubmittedInputValues, effort \in Efforts, model \in Models :
               Submits(X, effort, model) =>
                   processedEventsTimeline' =
                       IF IsBlank(X) THEN processedEventsTimeline ELSE <<>>
        /\ \A k \in Written :
               Timeless(historicalActivities'[k]) = Classified(delivered')
      ]_vars

\* C6 witness: the stream of a turn went idle after a query event and no
\* terminal event; the timeline still holds the event and nothing was stored.
C6_Witness ==
    /\ TurnOpened /\ ~isLoading
    /\ delivered = <<GenerateQueryEvent>>
    /\ Len(processedEventsTimeline) = 1
    /\ ~hasFinalizeEventOccurredRef
    /\ DOMAIN historicalActivities = {}

C8_NoEventAfterError ==
    [][ /\ \A err \in StreamErrors :
               onError(err) => error' = ErrorOf(ErrorMessage(err))
        /\ (turnErrored /\ EventStep) =>
               /\ processedEventsTimeline' = processedEventsTimeline
               /\ chatMessages' = chatMessages
               /\ hasFinalizeEventOccurredRef' = hasFinalizeEventOccurredRef
               /\ historicalActivities' = historicalActivities
      ]_vars

\* C9 (as claimed): handleSubmit with a text that is not blank, called while an
\* error is recorded, clears the error and opens a turn, with the transcript
\* and historicalActivities of before retained.
C9_SubmitRecovers ==
    [][ \A X \in SubmittedInputValues, effort \in Efforts, model \in Models :
          (Submits(X, effort, model) /\ ~IsBlank(X) /\ ~error.isNull) =>
              /\ error'.isNull
              /\ isLoading'
              /\ SubSeq(chatMessages', 1, Len(chatMessages)) = chatMessages
              /\ historicalActivities' = historicalActivities
      ]_vars

\* C10: the timeline is the list of the ProcessedEvents that the events received
\* since the last submission (the last handleSubmit that passed its guard and
\* opened a turn) classify to, in arrival order, so its length is the number
\* of those events that classify to one; and each onCustomEvent appends at
\* most one entry at the end and leaves the earlier entries as they are.
C10_CountSinceSubmit ==
    /\ [](Timeless(processedEventsTimeline) = Classified(delivered))
    /\ [][ EventStep =>
               \/ processedEventsTimeline' = processedEventsTimeline
               \/ /\ Len(processedEventsTimeline') = Len(processedEventsTimeline) + 1
                  /\ SubSeq(processedEventsTimeline', 1, Len(processedEventsTimeline))
                         = processedEventsTimeline
         ]_vars

\* C10 witness: of two events received in the turn, the first classifies to
\* nothing and the timeline holds the one entry of the second.
C10_Witness ==
    /\ delivered = <<NonObjectEvent, GenerateQueryEvent>>
    /\ Len(processedEventsTimeline) = 1
    /\ processedEventsTimeline[1].title = "Generating Search Queries"

\* C11: an object event of no admissible shape ({unexpected: true}) and an
\* event whose processing throws inside the handler (doc_research with a
\* message that is not a string) each append exactly one entry at the end of
\* the timeline, titled "Custom Event" or "Custom Event Processing Error", and
\* leave the transcript, the latch, the error and historicalActivities as they
\* are and the stream active; a final answer received later in the same turn
\* is recorded as usual: one agent message with its content, the latch set,
\* one "Generating Final Answer" entry.
C11_FailureIsolated ==
    [][ /\ \A data \in MalformedEvents :
               Receives(data) =>
                   /\ chatMessages' = chatMessages
                   /\ hasFinalizeEventOccurredRef' = hasFinalizeEventOccurredRef
                   /\ error' = error
                   /\ historicalActivities' = historicalActivities
                   /\ isLoading'
                   /\ Len(processedEventsTimeline') = Len(processedEventsTimeline) + 1
                   /\ SubSeq(processedEventsTimeline', 1, Len(processedEventsTimeline))
                          = processedEventsTimeline
                   /\ processedEventsTimeline'[Len(processedEventsTimeline')].title
                          = IF data = UnexpectedEvent THEN "Custom Event"
                            ELSE "Custom Event Processing Error"
        /\ (Receives(FinalizeEvent)
              /\ \E i \in 1..Len(delivered) : delivered[i] \in MalformedEvents) =>
               /\ chatMessages' =
                      Append(chatMessages,
                             [type |-> "ai", content |-> FinalizeEvent.message,
                              id |-> MessageId("finalize", now)])
               /\ hasFinalizeEventOccurredRef'
               /\ Timeless(processedEventsTimeline') = Classified(delivered')
               /\ processedEventsTimeline'[Len(processedEventsTimeline')].title
                      = "Generating Final Answer"
      ]_vars

\* C11 witness: in one turn an event whose processing threw was followed by a
\* final answer; the timeline holds the error entry and the answer's entry,
\* and the transcript ends with the answer.
C11_Witness ==
    /\ delivered = <<DocResearchObjectEvent, FinalizeEvent>>
    /\ Len(processedEventsTimeline) = 2
    /\ processedEventsTimeline[1].title = "Custom Event Processing Error"
    /\ chatMessages[Len(chatMessages)].type = "ai"
    /\ error = NoError

\* C12 (as claimed): onCustomEvent on an envelope that is not an object (null,
\* a string, a number) appends exactly one entry to the timeline.
C12_NonObjectVisible ==
    [][ Receives(NonObjectEvent) =>
            Len(processedEventsTimeline') = Len(processedEventsTimeline) + 1
      ]_vars

\* The first turn of the page, opened by "What is X?" with effort medium, has
\* received the events of the pipeline in order and its stream has gone idle.
PipelineDone ==
    /\ TurnOpened /\ ~isLoading
    /\ Len(threadCall.request.messages) = 1
    /\ threadCall.request.messages[1].content = WhatIsX
    /\ threadCall.request.initial_search_query_count = 3
    /\ threadCall.request.max_research_loops = 3
    /\ delivered = PipelineStream

\* The transcript is [human "What is X?", agent "X is ..."].
PipelineTranscript ==
    /\ Len(chatMessages) = 2
    /\ chatMessages[1].type = "human" /\ chatMessages[1].content = WhatIsX
    /\ chatMessages[2].type = "ai" /\ chatMessages[2].content = XIs

\* C13 (as claimed): after submit("What is X?", medium), the four events of
\* the pipeline and stream idle, the transcript is [human "What is X?",
\* agent "X is ..."] and historicalActivities[agent.id] has exactly 3 entries.
C13_ThreeEntries ==
    PipelineDone =>
        /\ PipelineTranscript
        /\ chatMessages[2].id \in DOMAIN historicalActivities
        /\ Len(historicalActivities[chatMessages[2].id]) = 3

\* C13 (amended): after submit("What is X?", medium), the four events of the
\* pipeline and stream idle, the transcript is [human "What is X?",
\* agent "X is ..."] and historicalActivities[agent.id] has exactly 4 entries
\* in arrival order, one per event, the terminal event's own entry last.
C13_FourEntries ==
    PipelineDone =>
        /\ PipelineTranscript
        /\ DOMAIN historicalActivities = { chatMessages[2].id }
        /\ historicalActivities[chatMessages[2].id] = processedEventsTimeline
        /\ Timeless(historicalActivities[chatMessages[2].id]) =
               << [title |-> "Generating Search Queries", data |-> <<"q">>],
                  [title |-> "Web Research", data |-> <<"r">>],
                  [title |-> "Research Reflection",
                   data |-> <<"Research results are sufficient">>],
                  [title |-> "Generating Final Answer",
                   data |-> <<"Consolidating all research findings to generate a comprehensive answer...">>] >>

\* C13 witness: the run of the pipeline has ended without an error and the
\* answer's id holds four entries.
C13_Witness ==
    /\ PipelineDone
    /\ error = NoError
    /\ Len(chatMessages) = 2
    /\ chatMessages[2].id \in DOMAIN historicalActivities
    /\ Len(historicalActivities[chatMessages[2].id]) = 4

\* C14 (as claimed): no two messages of the transcript share an id.
C14_UniqueIds ==
    \A i, j \in 1..Len(chatMessages) :
        i # j => chatMessages[i].id # chatMessages[j].id

\* The step makes a thread.submit call.
SubmitForwarded == threadCall' # threadCall /\ threadCall'.op = "submit"

\* C15: the request that handleSubmit forwards to the stream has as messages
\* the whole transcript as it stood before the call, in order, agent messages
\* of earlier turns included, followed by the new human message as the last
\* element; it equals the transcript right after the append.
C15_RequestMessages ==
    [][ SubmitForwarded =>
            LET sent == threadCall'.request.messages IN
            /\ Len(sent) = Len(chatMessages) + 1
            /\ SubSeq(sent, 1, Len(chatMessages)) = chatMessages
            /\ sent[Len(sent)].type = "human"
            /\ sent[Len(sent)].id = MessageId("user", now)
            /\ sent = chatMessages'
      ]_vars

\* C15 witness: the request of a second turn was forwarded with three
\* messages, the answer of the first turn in the middle.
C15_Witness ==
    /\ TurnOpened /\ delivered = <<>>
    /\ Len(threadCall.request.messages) = 3
    /\ threadCall.request.messages[2].type = "ai"
    /\ threadCall.request.messages[3].content = <<"X">>
    /\ threadCall.request.messages = chatMessages

\* C16: a terminal event leaves the stream active and historicalActivities as
\* it is, with the latch set; historicalActivities is written only by the
\* stream-idle step, taken with the latch set, after which the stream is not
\* active; and the stream-idle step leaves the latch clear.
C16_CommitOnlyAtIdle ==
    [][ /\ \A data \in CustomEvents :
               (Receives(data) /\ IsFinalizeAnswer(data)) =>
                   /\ isLoading'
                   /\ hasFinalizeEventOccurredRef'
                   /\ historicalActivities' = historicalActivities
        /\ Written # {} =>
               /\ onStreamIdle
               /\ isLoading /\ ~isLoading'
               /\ hasFinalizeEventOccurredRef
        /\ onStreamIdle => ~hasFinalizeEventOccurredRef'
      ]_vars

\* C16 witness: a terminal event was received and the stream is still
\* active: the latch is set and the answer has no stored timeline yet.
C16_Witness ==
    /\ isLoading /\ hasFinalizeEventOccurredRef
    /\ delivered = <<GenerateQueryEvent, FinalizeEvent>>
    /\ chatMessages[Len(chatMessages)].type = "ai"
    /\ chatMessages[Len(chatMessages)].id \notin DOMAIN historicalActivities

\* C17 (as claimed): once the stream has gone idle, with no cancel (the
\* transcript is kept) and no stream error, the id of every agent message of
\* the transcript is a key of historicalActivities, and a key stays one under
\* every step but a reload.
C17_EveryAnswerAssociated ==
    /\ []((~isLoading /\ error.isNull) =>
              \A i \in 1..Len(chatMessages) :
                  chatMessages[i].type = "ai" =>
                      chatMessages[i].id \in DOMAIN historicalActivities)
    /\ [][ (SubmitStep \/ EventStep \/ onStreamIdle) =>
               DOMAIN historicalActivities \subseteq DOMAIN historicalActivities'
         ]_vars

\* C18: a finalize_answer event without content appends no message and leaves
\* the latch, historicalActivities and the active stream as they are; when the
\* stream of a turn whose events were all of this kind goes idle, the stream
\* is not active, the latch is clear, historicalActivities and the transcript
\* are as before, and the form that takes the next submission is rendered
\* (no error being recorded).
C18_TerminalWithoutContent ==
    [][ /\ Receives(FinalizeNoContentEvent) =>
               /\ chatMessages' = chatMessages
               /\ hasFinalizeEventOccurredRef' = hasFinalizeEventOccurredRef
               /\ historicalActivities' = historicalActivities
               /\ isLoading'
        /\ (/\ onStreamIdle
            /\ delivered # <<>>
            /\ \A i \in 1..Len(delivered) : delivered[i] = FinalizeNoContentEvent) =>
               /\ ~isLoading'
               /\ ~hasFinalizeEventOccurredRef'
               /\ historicalActivities' = historicalActivities
               /\ chatMessages' = chatMessages
               /\ error.isNull => FormRendered'
      ]_vars

\* C18 witness: the stream of a turn went idle after one finalize_answer event
\* without content: the transcript ends with the question, the latch is
\* clear and the timeline holds the one "Custom Event" entry.
C18_Witness ==
    /\ TurnOpened /\ ~isLoading
    /\ delivered = <<FinalizeNoContentEvent>>
    /\ chatMessages[Len(chatMessages)].type = "human"
    /\ ~hasFinalizeEventOccurredRef
    /\ Len(processedEventsTimeline) = 1
    /\ processedEventsTimeline[1].title = "Custom Event"

IsHuman(message) == message.type = "human"

\* The envelope is a finalize event with content: an object naming the node
\* finalize_answer and carrying a message that is not empty.
FinalizeWithContent(data) ==
    data.isObject /\ data.langgraph_node = "finalize_answer" /\ data.message # <<>>

HumanMessages(messages) == SelectSeq(messages, IsHuman)

\* C19: an event that is not a finalize_answer event with content leaves the
\* transcript, the latch and historicalActivities as they are; the
\* stream-idle step leaves the transcript and the timeline as they are; the
\* number of agent messages grows only in a step that receives a
\* finalize_answer event with content, and the number of human messages only
\* in a handleSubmit step.
C19_MessageCreators ==
    [][ /\ \A data \in CustomEvents :
               (Receives(data) /\ ~FinalizeWithContent(data)) =>
                   /\ chatMessages' = chatMessages
                   /\ hasFinalizeEventOccurredRef' = hasFinalizeEventOccurredRef
                   /\ historicalActivities' = historicalActivities
        /\ onStreamIdle =>
               /\ chatMessages' = chatMessages
               /\ processedEventsTimeline' = processedEventsTimeline
        /\ Len(AgentMessages(chatMessages')) > Len(AgentMessages(chatMessages)) =>
               \E data \in CustomEvents : Receives(data) /\ FinalizeWithContent(data)
        /\ Len(HumanMessages(chatMessages')) > Len(HumanMessages(chatMessages)) =>
               SubmitStep
      ]_vars

\* C19 witness: a query event arrived after the terminal event of the turn
\* and left the latch set and the answer the last message.
C19_Witness ==
    /\ delivered = <<FinalizeEvent, GenerateQueryEvent>>
    /\ isLoading /\ hasFinalizeEventOccurredRef
    /\ Len(processedEventsTimeline) = 2
    /\ chatMessages[Len(chatMessages)].type = "ai"

\* C20: whenever the latch is set the transcript is not empty and ends with
\* an agent message; a step that appends a human message leaves the latch
\* clear; so the stream-idle step taken with the latch set stores the timeline
\* under the id of the last message, an agent message, and every key of
\* historicalActivities is an id made for an agent message.
C20_LatchMeansAnswerLast ==
    /\ [](hasFinalizeEventOccurredRef =>
              /\ chatMessages # <<>>
              /\ chatMessages[Len(chatMessages)].type = "ai")
    /\ [](\A k \in DOMAIN historicalActivities : k.prefix = "finalize")
    /\ [][ /\ (Len(chatMessages') > Len(chatMessages)
                 /\ chatMessages'[Len(chatMessages')].type = "human") =>
                  ~hasFinalizeEventOccurredRef'
           /\ (onStreamIdle /\ hasFinalizeEventOccurredRef) =>
                  LET lastMessage == chatMessages[Len(chatMessages)] IN
                  /\ lastMessage.type = "ai"
                  /\ lastMessage.id \in DOMAIN historicalActivities'
                  /\ historicalActivities'[lastMessage.id] = processedEventsTimeline
         ]_vars

\* C20 witness: in a second turn the terminal event has set the latch again:
\* the transcript is question, answer, question, answer.
C20_Witness ==
    /\ hasFinalizeEventOccurredRef
    /\ Len(chatMessages) = 4
    /\ chatMessages[2].type = "ai"
    /\ chatMessages[3].type = "human"
    /\ chatMessages[4].type = "ai"

\* C21: every key of historicalActivities is the id of an agent message of
\* the transcript, and there are no more keys than agent messages.
C21_KeysAreAnswers ==
    /\ \A k \in DOMAIN historicalActivities :
           \E i \in 1..Len(chatMessages) :
               chatMessages[i].type = "ai" /\ chatMessages[i].id = k
    /\ Cardinality(DOMAIN historicalActivities) <= Len(AgentMessages(chatMessages))

\* C21 witness: two turns have ended, each with its answer stored: two keys
\* for the two agent messages of the transcript.
C21_Witness ==
    /\ ~isLoading
    /\ Cardinality(DOMAIN historicalActivities) = 2
    /\ Len(AgentMessages(chatMessages)) = 2

\* C22: an event of type error_occurred received on the stream records its
\* message ("An unknown error occurred" when it has none) as the error, which
\* the page then shows in place of the chat, appends exactly one "Error" entry
\* at the end of the timeline, and leaves the transcript, the latch,
\* historicalActivities and the active stream as they are; a query event
\* received while the error is recorded is still classified and appended.
C22_ErrorEventRecorded ==
    [][ /\ \A data \in ErrorOccurredEvents :
               Receives(data) =>
                   /\ error' = ErrorOf(IF data.message # <<>> THEN data.message
                                       ELSE <<"An unknown error occurred">>)
                   /\ ErrorShown' /\ ~FormRendered'
                   /\ processedEventsTimeline' =
                          Append(processedEventsTimeline,
                                 [title |-> "Error",
                                  data |-> IF data.message # <<>> THEN data.message
                                           ELSE <<"An error occurred">>,
                                  timestamp |-> now])
                   /\ chatMessages' = chatMessages
                   /\ hasFinalizeEventOccurredRef' = hasFinalizeEventOccurredRef
                   /\ historicalActivities' = historicalActivities
                   /\ isLoading'
        /\ (Receives(GenerateQueryEvent) /\ ~error.isNull) =>
               /\ Len(processedEventsTimeline') = Len(processedEventsTimeline) + 1
               /\ processedEventsTimeline'[Len(processedEventsTimeline')].title
                      = "Generating Search Queries"
               /\ Timeless(processedEventsTimeline') = Classified(delivered')
      ]_vars

\* C22 witness: an error_occurred event was followed by a query event in the
\* same turn: the error "E" is shown and the timeline holds both entries.
C22_Witness ==
    /\ delivered = <<ErrorOccurredEvent, GenerateQueryEvent>>
    /\ error = ErrorOf(<<"E">>)
    /\ ErrorShown /\ ~FormRendered
    /\ Len(processedEventsTimeline) = 2
    /\ processedEventsTimeline[1].title = "Error"
    /\ processedEventsTimeline[2].title = "Generating Search Queries"

====
